---- MODULE Spec2Model ----
(***************************************************************************)
(* Model of the todo service: the Todo table (models.py), the schema       *)
(* validation (schemas.py), the request middleware (middleware.py), the    *)
(* service operations (services.py) and the route handlers (routes.py).    *)
(*                                                                         *)
(* Strings are sequences of one-character strings, so that strip() and     *)
(* capitalize() and the date parser are computed, not assumed.             *)
(***************************************************************************)
EXTENDS Integers, Sequences, FiniteSets, TLC

VARIABLES
    todos,      \* the rows of table "todos": id -> row
    clock,      \* datetime.now(timezone.utc), as a tick count
    threads     \* per request thread: the request in progress and its response

vars == <<todos, clock, threads>>

-----------------------------------------------------------------------------
(* Bounds of the model *)

MaxId == 2          \* ids handed out by the table stay within 1..MaxId
MaxClock == 1       \* the clock stops ticking at MaxClock

Main == "t1"                \* the thread that serves requests one at a time
Workers == {"t1", "t2"}     \* the threads that serve requests concurrently

Ids == 1..MaxId
ProbeIds == 1..(MaxId + 1)   \* ids a client may name: includes one never assigned

-----------------------------------------------------------------------------
(* Python str helpers *)

Space == " "

RECURSIVE lstrip(_)
lstrip(s) ==
    IF s = <<>> THEN <<>>
    ELSE IF Head(s) = Space THEN lstrip(Tail(s)) ELSE s

RECURSIVE rstrip(_)
rstrip(s) ==
    IF s = <<>> THEN <<>>
    ELSE IF s[Len(s)] = Space THEN rstrip(SubSeq(s, 1, Len(s) - 1)) ELSE s

\* str.strip()
strip(s) == rstrip(lstrip(s))

\* the letters that occur in the modelled inputs, as <<lower, upper>>
Letters ==
    { <<"a", "A">>, <<"b", "B">>, <<"c", "C">>, <<"d", "D">>, <<"e", "E">>,
      <<"g", "G">>, <<"h", "H">>, <<"i", "I">>, <<"l", "L">>, <<"m", "M">>,
      <<"n", "N">>, <<"o", "O">>, <<"p", "P">>, <<"s", "S">>, <<"t", "T">>,
      <<"u", "U">>, <<"w", "W">>, <<"x", "X">> }

upper_char(c) ==
    IF \E p \in Letters : p[1] = c THEN (CHOOSE p \in Letters : p[1] = c)[2] ELSE c

lower_char(c) ==
    IF \E p \in Letters : p[2] = c THEN (CHOOSE p \in Letters : p[2] = c)[1] ELSE c

\* str.capitalize(): first character upper-cased, the rest lower-cased
capitalize(s) ==
    [i \in 1..Len(s) |-> IF i = 1 THEN upper_char(s[i]) ELSE lower_char(s[i])]

\* str.lower()
lower(s) == [i \in 1..Len(s) |-> lower_char(s[i])]

\* the characters of the modelled inputs, in code point order
CodePoints ==
    <<" ", "%", "+", "-", ".",
      "0", "1", "2", "3", "4", "5", "6", "7", "8", "9",
      "A", "B", "C", "D", "E", "G", "H", "I", "L", "M", "N", "O", "P", "S", "T",
      "U", "W", "X", "_",
      "a", "b", "c", "d", "e", "g", "h", "i", "l", "m", "n", "o", "p", "s", "t",
      "u", "w", "x">>

\* the place of a character in that order
char_rank(c) == CHOOSE i \in 1..Len(CodePoints) : CodePoints[i] = c

\* a <= b for two texts compared character by character (Python str, and
\* the BINARY collation of a TEXT column)
RECURSIVE text_le(_, _)
text_le(a, b) ==
    IF a = <<>> THEN TRUE
    ELSE IF b = <<>> THEN FALSE
    ELSE IF Head(a) = Head(b) THEN text_le(Tail(a), Tail(b))
    ELSE char_rank(Head(a)) < char_rank(Head(b))

-----------------------------------------------------------------------------
(* constants.py *)

PRIORITIES ==
    { <<"H", "i", "g", "h">>,
      <<"M", "e", "d", "i", "u", "m">>,
      <<"L", "o", "w">> }

DefaultPrioritas == <<"M", "e", "d", "i", "u", "m">>

DEFAULT_PAGE == 1
DEFAULT_PER_PAGE == 10
MAX_PER_PAGE == 100

\* JSON null / Python None, as a raw value and as a stored value
None == <<"None">>
NULL == <<>>

-----------------------------------------------------------------------------
(* datetime.date: fields.Date deserialisation and serialisation *)

Digits == <<"0", "1", "2", "3", "4", "5", "6", "7", "8", "9">>

is_digit(c) == \E i \in 1..10 : Digits[i] = c

digit_value(c) == (CHOOSE i \in 1..10 : Digits[i] = c) - 1

RECURSIVE number(_)
number(s) ==
    IF s = <<>> THEN 0
    ELSE 10 * number(SubSeq(s, 1, Len(s) - 1)) + digit_value(s[Len(s)])

is_leap(y) == (y % 4 = 0 /\ y % 100 # 0) \/ y % 400 = 0

days_in_month(y, m) ==
    IF m = 2 THEN (IF is_leap(y) THEN 29 ELSE 28)
    ELSE IF m \in {4, 6, 9, 11} THEN 30 ELSE 31

\* the text has the shape YYYY-MM-DD
is_date_shape(s) ==
    /\ Len(s) = 10
    /\ s[5] = "-" /\ s[8] = "-"
    /\ \A i \in {1, 2, 3, 4, 6, 7, 9, 10} : is_digit(s[i])

\* the calendar date of a text of that shape, <<year, month, day>>
date_fields(s) ==
    <<number(SubSeq(s, 1, 4)), number(SubSeq(s, 6, 7)), number(SubSeq(s, 9, 10))>>

is_valid_date(s) ==
    /\ is_date_shape(s)
    /\ LET d == date_fields(s) IN
          /\ d[1] >= 1
          /\ d[2] \in 1..12
          /\ d[3] \in 1..days_in_month(d[1], d[2])

RECURSIVE zero_pad(_, _)
zero_pad(n, width) ==
    IF width = 0 THEN <<>>
    ELSE Append(zero_pad(n \div 10, width - 1), Digits[(n % 10) + 1])

\* date.isoformat()
isoformat(d) ==
    zero_pad(d[1], 4) \o <<"-">> \o zero_pad(d[2], 2) \o <<"-">> \o zero_pad(d[3], 2)

-----------------------------------------------------------------------------
(* Request payloads: JSON objects, as functions from field names to raw values *)

S_a == <<"a">>
S_sp_a == <<" ", "a">>
S_hIGH == <<"h", "I", "G", "H">>
S_x == <<"x">>
S_b == <<"b">>
S_jan15 == <<"2", "0", "2", "5", "-", "0", "1", "-", "1", "5">>
S_feb30 == <<"2", "0", "2", "5", "-", "0", "2", "-", "3", "0">>

JudulInputs == { <<>>, <<" ">>, S_a, S_sp_a }
StatusInputs == BOOLEAN
PrioritasInputs == { S_hIGH, S_x }
DeadlineInputs == { S_jan15, S_feb30 }

\* zero or one raw value for a field
Opt(S) == {{}} \cup {{v} : v \in S}

MkPayload(j, s, p, d) ==
    LET keys == (IF j = {} THEN {} ELSE {"judul"})
                \cup (IF s = {} THEN {} ELSE {"status"})
                \cup (IF p = {} THEN {} ELSE {"prioritas"})
                \cup (IF d = {} THEN {} ELSE {"deadline"})
    IN [k \in keys |->
            CASE k = "judul" -> CHOOSE v \in j : TRUE
              [] k = "status" -> CHOOSE v \in s : TRUE
              [] k = "prioritas" -> CHOOSE v \in p : TRUE
              [] k = "deadline" -> CHOOSE v \in d : TRUE]

Payloads ==
    { MkPayload(j, s, p, d) : j \in Opt(JudulInputs), s \in Opt(StatusInputs),
                              p \in Opt(PrioritasInputs), d \in Opt(DeadlineInputs) }

\* payloads of the requests made while the clock ticks
TimePayloads ==
    { MkPayload(j, s, p, d) : j \in Opt({S_a, S_sp_a}), s \in Opt({TRUE}),
                              p \in Opt({S_hIGH}), d \in Opt({None}) }

\* payloads of the requests that run concurrently
ConcPayloads ==
    { MkPayload({S_a}, {}, {}, {}), MkPayload({S_sp_a}, {}, {}, {}),
      MkPayload({}, {TRUE}, {}, {}) }

\* payloads of the requests made next to List and Search requests
QueryPayloads ==
    { MkPayload(j, s, p, d) : j \in Opt({S_a, S_b}), s \in Opt({TRUE}),
                              p \in Opt({S_hIGH}), d \in Opt({S_jan15}) }

\* payloads that break the rules of the schema in every combination
KnownFieldPayloads ==
    { MkPayload(j, s, p, d) : j \in Opt({<<>>, S_a}), s \in Opt({TRUE}),
                              p \in Opt({<<>>, S_x, S_hIGH}),
                              d \in Opt({S_feb30, S_jan15}) }

\* a field name that is no field of the schema
UnknownField == "catatan"

\* the payload with the unknown field added
WithUnknown(data) ==
    [k \in DOMAIN data \cup {UnknownField} |->
        IF k = UnknownField THEN S_x ELSE data[k]]

\* the payload without the unknown field
WithoutUnknown(data) == [k \in DOMAIN data \ {UnknownField} |-> data[k]]

ValidatePayloads ==
    KnownFieldPayloads \cup { WithUnknown(data) : data \in KnownFieldPayloads }

-----------------------------------------------------------------------------
(* Query strings: request.args of GET / and GET /search.  page and per_page *)
(* are None when the parameter is absent; the filters default to ""          *)

S_A == <<"A">>
S_medium == <<"m", "e", "d", "i", "u", "m">>
S_COMPLETED == <<"C", "O", "M", "P", "L", "E", "T", "E", "D">>
S_Selesai == <<"S", "e", "l", "e", "s", "a", "i">>
S_pending == <<"p", "e", "n", "d", "i", "n", "g">>
S_BELUM == <<"B", "E", "L", "U", "M">>
S_jan01 == <<"2", "0", "2", "5", "-", "0", "1", "-", "0", "1">>
S_feb01 == <<"2", "0", "2", "5", "-", "0", "2", "-", "0", "1">>

PageInputs ==
    { None, <<>>, <<"0">>, <<"1">>, <<"2">>, <<"3">>, <<"-", "1">>, <<" ", "2">>,
      <<"1", ".", "5">>, S_x }
PerPageInputs ==
    { None, <<>>, <<"0">>, <<"1">>, <<"2">>, <<"1", "0", "0">>, <<"1", "0", "1">>,
      <<"-", "1">>, S_x }

\* each parameter over all its inputs next to a small or absent other one
ListArgs ==
    { [page |-> p, per_page |-> pp] : p \in PageInputs, pp \in {None, <<"1">>} }
    \cup { [page |-> p, per_page |-> pp] :
               p \in {None, <<"1">>, <<"2">>, S_x}, pp \in PerPageInputs }

\* the List requests made while the clock ticks
TimeListArgs ==
    { [page |-> p, per_page |-> pp] : p \in {None, <<"2">>}, pp \in {None, <<"1">>} }

PrioritasFilters == { <<>>, S_hIGH, S_medium, S_x }
StatusFilters == { <<>>, S_COMPLETED, S_Selesai, S_pending, S_BELUM, S_x }
DeadlineFilters == { <<>>, S_jan15 }
DeadlineFromFilters == { <<>>, S_jan01, S_jan15, S_feb01 }
DeadlineToFilters == { <<>>, S_jan01, S_jan15, S_x }
SearchPages == { <<None, None>>, <<<<"2">>, <<"1">>>> }

MkArgs(q, p, s, d, a, b, pg) ==
    [q |-> q, prioritas |-> p, status |-> s, deadline |-> d,
     deadline_from |-> a, deadline_to |-> b, page |-> pg[1], per_page |-> pg[2]]

\* every subset of the six filters with one value each on the default page,
\* and the subsets of q, status and deadline_to on the second page of size 1
FilterSubsetArgs ==
    { MkArgs(q, p, s, d, a, b, <<None, None>>) :
        q \in {<<>>, S_A}, p \in {<<>>, S_medium}, s \in {<<>>, S_Selesai},
        d \in {<<>>, S_jan15}, a \in {<<>>, S_jan01}, b \in {<<>>, S_jan15} }
    \cup { MkArgs(q, <<>>, s, <<>>, <<>>, b, pg) :
               q \in {<<>>, S_A}, s \in {<<>>, S_Selesai}, b \in {<<>>, S_jan15},
               pg \in SearchPages }

\* the filter subsets, then every priority and every status, and every
\* combination of the deadline filters
SearchArgs ==
    FilterSubsetArgs
    \cup { MkArgs(<<>>, p, <<>>, <<>>, <<>>, <<>>, <<None, None>>) : p \in PrioritasFilters }
    \cup { MkArgs(<<>>, <<>>, s, <<>>, <<>>, <<>>, <<None, None>>) : s \in StatusFilters }
    \cup { MkArgs(<<>>, <<>>, <<>>, d, a, b, <<None, None>>) :
               d \in DeadlineFilters, a \in DeadlineFromFilters, b \in DeadlineToFilters }

-----------------------------------------------------------------------------
(* schemas.py: TodoSchema *)

LoadFields == {"judul", "status", "prioritas", "deadline"}

\* judul = fields.Str(required=True, validate=lambda x: len(x.strip()) > 0)
judul_field_ok(value) == Len(strip(value)) > 0

\* @validates("judul"): raises iff  not value or not value.strip()
validate_judul(value) == ~(value = <<>> \/ strip(value) = <<>>)

\* @validates("prioritas"): raises iff  value and value.capitalize() not in PRIORITIES
validate_prioritas(value) == ~(value # <<>> /\ capitalize(value) \notin PRIORITIES)

\* deadline = fields.Date(allow_none=True): None passes, text must be a date
deadline_field_ok(value) == value = None \/ is_valid_date(value)

\* mutant of schema_errors: the title validators test the value without strip()
schema_errors_no_strip(data, partial) ==
    { k \in LoadFields \cup DOMAIN data :
        IF k \notin LoadFields THEN TRUE
        ELSE IF k \notin DOMAIN data THEN k = "judul" /\ ~partial
        ELSE CASE k = "judul" -> data[k] = <<>>
               [] k = "status" -> data[k] \notin BOOLEAN
               [] k = "prioritas" -> ~validate_prioritas(data[k])
               [] k = "deadline" -> ~deadline_field_ok(data[k]) }

\* the fields of a payload that TodoSchema.load reports in ValidationError.messages
schema_errors(data, partial) ==
    { k \in LoadFields \cup DOMAIN data :
        IF k \notin LoadFields THEN TRUE                       \* unknown field
        ELSE IF k \notin DOMAIN data THEN k = "judul" /\ ~partial   \* required
        ELSE CASE k = "judul" -> ~(judul_field_ok(data[k]) /\ validate_judul(data[k]))
               [] k = "status" -> data[k] \notin BOOLEAN
               [] k = "prioritas" -> ~validate_prioritas(data[k])
               [] k = "deadline" -> ~deadline_field_ok(data[k]) }

\* the attribute values TodoSchema.load sets on the instance
schema_load(data) ==
    [k \in DOMAIN data |->
        IF k = "deadline"
        THEN (IF data[k] = None THEN NULL ELSE date_fields(data[k]))
        ELSE data[k]]

\* TodoSchema.dump of a row, fields in the order of order_fields
schema_dump(id, row) ==
    [id |-> id,
     judul |-> row.judul,
     status |-> row.status,
     prioritas |-> row.prioritas,
     deadline |-> IF row.deadline = NULL THEN None ELSE isoformat(row.deadline),
     created_at |-> row.created_at,
     updated_at |-> row.updated_at]

-----------------------------------------------------------------------------
(* models.py: the rows of table "todos" *)

\* mutant of new_row: the column default of prioritas is "Low"
new_row_default_low(values, now) ==
    [judul |-> values["judul"],
     status |-> IF "status" \in DOMAIN values THEN values["status"] ELSE FALSE,
     prioritas |-> IF "prioritas" \in DOMAIN values THEN values["prioritas"]
                   ELSE <<"L", "o", "w">>,
     deadline |-> IF "deadline" \in DOMAIN values THEN values["deadline"] ELSE NULL,
     created_at |-> now,
     updated_at |-> NULL]

\* the row an INSERT of a loaded instance writes: column defaults fill the
\* attributes the payload did not set; updated_at has no insert default
new_row(values, now) ==
    [judul |-> values["judul"],
     status |-> IF "status" \in DOMAIN values THEN values["status"] ELSE FALSE,
     prioritas |-> IF "prioritas" \in DOMAIN values THEN values["prioritas"]
                   ELSE DefaultPrioritas,
     deadline |-> IF "deadline" \in DOMAIN values THEN values["deadline"] ELSE NULL,
     created_at |-> now,
     updated_at |-> NULL]

\* id = db.Column(db.Integer, primary_key=True): the table assigns the next rowid
next_id(store) ==
    IF DOMAIN store = {} THEN 1
    ELSE (CHOOSE i \in DOMAIN store : \A j \in DOMAIN store : j <= i) + 1

\* mutant of violates_unique: the column is declared without unique=True
violates_unique_never(store, id, judul) == FALSE

\* judul = db.Column(..., unique=True): the row would collide with another row
violates_unique(store, id, judul) ==
    \E i \in DOMAIN store : i # id /\ store[i].judul = judul

\* the store with row `id` set to `row`
put_row(store, id, row) ==
    [i \in DOMAIN store \cup {id} |-> IF i = id THEN row ELSE store[i]]

\* the store without row `id`
drop_row(store, id) == [i \in DOMAIN store \ {id} |-> store[i]]

-----------------------------------------------------------------------------
(* Responses *)

NoBody == <<>>

Resp(status, kind, errors, body) ==
    [status |-> status, kind |-> kind, errors |-> errors, body |-> body]

NoResp == Resp(0, "-", {}, NoBody)

\* the outcome of one phase of a handler: a response, or work left to commit
Answer(resp) == [resp |-> resp, work |-> <<>>]
Pending(work) == [resp |-> NoResp, work |-> work]

-----------------------------------------------------------------------------
(* middleware.py *)

\* sanitize_input: every string value stripped, other values kept
sanitize_input(data) ==
    [k \in DOMAIN data |-> IF k = "status" \/ data[k] = None THEN data[k]
                           ELSE strip(data[k])]

\* require_json_data: the response it returns itself, NoResp when it calls on;
\* the sanitized payload goes to g.json_data
require_json_data(data) ==
    IF data = <<>> THEN Resp(400, "no_input", {}, NoBody) ELSE NoResp

-----------------------------------------------------------------------------
(* services.py: TodoService.  A service call either raises or returns; the  *)
(* calls that write are cut where db.session.commit() begins, because the   *)
(* statements of another request can run between the query and the commit.  *)

Raise(exc, msg, errors) == [exc |-> exc, msg |-> msg, errors |-> errors, value |-> <<>>]
Return(value) == [exc |-> "", msg |-> "", errors |-> {}, value |-> value]

\* Todo.query.filter_by(judul=...).first() finds a row
title_exists(store, judul) == \E i \in DOMAIN store : store[i].judul = judul

\* mutant of create_todo_load: the payload is validated before the duplicate check
create_todo_load_validate_first(store, data) ==
    IF data = <<>> THEN Raise("ValueError", "no_input", {})
    ELSE IF schema_errors(data, FALSE) # {}
    THEN Raise("ValidationError", "validation_error", schema_errors(data, FALSE))
    ELSE IF title_exists(store, data["judul"])
    THEN Raise("ValueError", "duplicate_title", {})
    ELSE Return([id |-> 0, snapshot |-> <<>>, values |-> schema_load(data)])

\* create_todo up to todo_schema.load: the loaded attribute values
create_todo_load(store, data) ==
    IF data = <<>> THEN Raise("ValueError", "no_input", {})
    ELSE IF "judul" \in DOMAIN data /\ title_exists(store, data["judul"])
    THEN Raise("ValueError", "duplicate_title", {})
    ELSE IF schema_errors(data, FALSE) # {}
    THEN Raise("ValidationError", "validation_error", schema_errors(data, FALSE))
    ELSE Return([id |-> 0, snapshot |-> <<>>, values |-> schema_load(data)])

\* create_todo from db.session.add: the INSERT and the commit
create_todo_commit(store, now, work) ==
    IF violates_unique(store, 0, work.values["judul"])
    THEN [store |-> store, r |-> Raise("IntegrityError", "", {})]
    ELSE LET id == next_id(store)
             row == new_row(work.values, now)
         IN [store |-> put_row(store, id, row), r |-> Return(schema_dump(id, row))]

\* get_todo_by_id
get_todo_by_id(store, todo_id) ==
    IF todo_id \in DOMAIN store THEN Return(schema_dump(todo_id, store[todo_id]))
    ELSE Raise("ValueError", "todo_not_found", {})

\* mutant of update_todo_load: the payload is validated before the row is fetched
update_todo_load_validate_first(store, todo_id, data) ==
    IF data = <<>> THEN Raise("ValueError", "no_data_for_update", {})
    ELSE IF schema_errors(data, TRUE) # {}
    THEN Raise("ValidationError", "validation_error", schema_errors(data, TRUE))
    ELSE IF todo_id \notin DOMAIN store THEN Raise("ValueError", "todo_not_found", {})
    ELSE Return([id |-> todo_id, snapshot |-> store[todo_id],
                 values |-> schema_load(data)])

\* update_todo up to todo_schema.load(data, instance=todo, partial=True)
update_todo_load(store, todo_id, data) ==
    IF data = <<>> THEN Raise("ValueError", "no_data_for_update", {})
    ELSE IF todo_id \notin DOMAIN store THEN Raise("ValueError", "todo_not_found", {})
    ELSE IF schema_errors(data, TRUE) # {}
    THEN Raise("ValidationError", "validation_error", schema_errors(data, TRUE))
    ELSE Return([id |-> todo_id, snapshot |-> store[todo_id],
                 values |-> schema_load(data)])

\* the attributes the session sees as modified: set to a value other than the loaded one
modified(work) == { k \in DOMAIN work.values : work.values[k] # work.snapshot[k] }

\* mutant of updated_row: the load is not partial, columns the payload leaves
\* out go back to their defaults
updated_row_replace(row, work, now) ==
    [c \in DOMAIN row |->
        IF c \in DOMAIN work.values THEN work.values[c]
        ELSE CASE c = "status" -> FALSE
               [] c = "prioritas" -> DefaultPrioritas
               [] c = "deadline" -> NULL
               [] c = "updated_at" -> <<now>>
               [] OTHER -> row[c]]

\* mutant of updated_row: updated_at is declared without onupdate
updated_row_no_onupdate(row, work, now) ==
    [c \in DOMAIN row |-> IF c \in modified(work) THEN work.values[c] ELSE row[c]]

\* the row after the UPDATE: the modified columns, and updated_at by onupdate
updated_row(row, work, now) ==
    [c \in DOMAIN row |->
        IF c \in modified(work) THEN work.values[c]
        ELSE IF c = "updated_at" THEN <<now>>
        ELSE row[c]]

\* update_todo from db.session.commit: the UPDATE (if anything is modified),
\* the commit, and the reload of the expired instance for the response
update_todo_commit(store, now, work) ==
    IF work.id \notin DOMAIN store
    THEN [store |-> store, r |-> Raise("StaleDataError", "", {})]
    ELSE IF modified(work) = {}
    THEN [store |-> store, r |-> Return(schema_dump(work.id, store[work.id]))]
    ELSE IF "judul" \in modified(work) /\ violates_unique(store, work.id, work.values["judul"])
    THEN [store |-> store, r |-> Raise("IntegrityError", "", {})]
    ELSE LET row == updated_row(store[work.id], work, now)
         IN [store |-> put_row(store, work.id, row),
             r |-> Return(schema_dump(work.id, row))]

\* delete_todo up to db.session.delete
delete_todo_load(store, todo_id) ==
    IF todo_id \in DOMAIN store
    THEN Return([id |-> todo_id, snapshot |-> store[todo_id], values |-> <<>>])
    ELSE Raise("ValueError", "todo_not_found", {})

\* mutant of delete_todo_commit: the row is kept (a soft delete)
delete_todo_commit_none(store, work) ==
    [store |-> store, r |-> Return(NoBody)]

\* mutant of delete_todo_commit: the DELETE has no WHERE clause
delete_todo_commit_all(store, work) ==
    [store |-> <<>>, r |-> Return(NoBody)]

\* delete_todo from db.session.delete: the DELETE and the commit; a DELETE
\* that matches no row is a warning, not an exception
delete_todo_commit(store, work) ==
    [store |-> drop_row(store, work.id), r |-> Return(NoBody)]

(* services.py: pagination *)

\* int(text) succeeds: surrounding whitespace, an optional sign, decimal digits
is_int_text(text) ==
    LET t == strip(text)
        u == IF t # <<>> /\ Head(t) \in {"+", "-"} THEN Tail(t) ELSE t
    IN u # <<>> /\ \A i \in 1..Len(u) : is_digit(u[i])

\* int(text)
int(text) ==
    LET t == strip(text) IN
    IF Head(t) = "-" THEN 0 - number(Tail(t))
    ELSE IF Head(t) = "+" THEN number(Tail(t))
    ELSE number(t)

\* `x if value else default`: None and "" are falsy
is_falsy(value) == value = None \/ value = <<>>

\* mutant of validate_pagination_params: a per_page above the maximum falls
\* back to the default
validate_pagination_params_max_to_default(page, per_page) ==
    IF \/ ~is_falsy(page) /\ ~is_int_text(page)
       \/ ~is_falsy(per_page) /\ ~is_int_text(per_page)
    THEN Raise("ValueError", "invalid_page", {})
    ELSE LET page_int == IF is_falsy(page) THEN DEFAULT_PAGE ELSE int(page)
             per_page_int == IF is_falsy(per_page) THEN DEFAULT_PER_PAGE ELSE int(per_page)
         IN Return([page |-> IF page_int < 1 THEN DEFAULT_PAGE ELSE page_int,
                    per_page |-> IF per_page_int > MAX_PER_PAGE \/ per_page_int < 1
                                 THEN DEFAULT_PER_PAGE ELSE per_page_int])

\* validate_pagination_params
validate_pagination_params(page, per_page) ==
    IF \/ ~is_falsy(page) /\ ~is_int_text(page)
       \/ ~is_falsy(per_page) /\ ~is_int_text(per_page)
    THEN Raise("ValueError", "invalid_page", {})
    ELSE LET page_int == IF is_falsy(page) THEN DEFAULT_PAGE ELSE int(page)
             per_page_int == IF is_falsy(per_page) THEN DEFAULT_PER_PAGE ELSE int(per_page)
             capped == IF per_page_int > MAX_PER_PAGE THEN MAX_PER_PAGE ELSE per_page_int
         IN Return([page |-> IF page_int < 1 THEN DEFAULT_PAGE ELSE page_int,
                    per_page |-> IF capped < 1 THEN DEFAULT_PER_PAGE ELSE capped])

\* the sequences that hold each element of S once
Orderings(S) ==
    { p \in [1..Cardinality(S) -> S] : \A i, j \in DOMAIN p : i # j => p[i] # p[j] }

\* order_by(Todo.created_at.desc()): the orders in which the database may
\* return the ids of the table; the order of rows with equal created_at is
\* left to the database
order_by_created_at_desc(store) ==
    { p \in Orderings(DOMAIN store) :
        \A i \in 1..(Len(p) - 1) : store[p[i]].created_at >= store[p[i + 1]].created_at }

\* mutant of paginate: the page count is rounded down
paginate_floor(ids, page, per_page) ==
    LET total == Len(ids)
        last == IF page * per_page < total THEN page * per_page ELSE total
    IN [items |-> SubSeq(ids, (page - 1) * per_page + 1, last),
        page |-> page, per_page |-> per_page, total |-> total,
        pages |-> total \div per_page,
        has_next |-> page < total \div per_page,
        has_prev |-> page > 1]

\* query.paginate(page=page, per_page=per_page, error_out=False) over the
\* ordered ids of the rows that match
paginate(ids, page, per_page) ==
    LET total == Len(ids)
        pages == IF total = 0 THEN 0 ELSE (total + per_page - 1) \div per_page
        last == IF page * per_page < total THEN page * per_page ELSE total
    IN [items |-> SubSeq(ids, (page - 1) * per_page + 1, last),
        page |-> page, per_page |-> per_page, total |-> total,
        pages |-> pages,
        has_next |-> page < pages,
        has_prev |-> page > 1]

\* the dict get_all_todos and search_todos return
page_result(store, pagination) ==
    [todos |-> [i \in 1..Len(pagination.items) |->
                    schema_dump(pagination.items[i], store[pagination.items[i]])],
     pagination |-> [page |-> pagination.page, per_page |-> pagination.per_page,
                     total |-> pagination.total, pages |-> pagination.pages,
                     has_next |-> pagination.has_next, has_prev |-> pagination.has_prev]]

\* get_all_todos; rows is the order the database returns the table in
get_all_todos(store, rows, page, per_page) ==
    page_result(store, paginate(rows, page, per_page))

-----------------------------------------------------------------------------
(* services.py: search_todos *)

\* text LIKE pattern: % stands for any run of characters, _ for any one
\* character, letters match in either case
RECURSIVE like(_, _)
like(text, pattern) ==
    IF pattern = <<>> THEN text = <<>>
    ELSE IF Head(pattern) = "%"
    THEN like(text, Tail(pattern)) \/ (text # <<>> /\ like(Tail(text), pattern))
    ELSE /\ text # <<>>
         /\ (Head(pattern) = "_" \/ lower_char(Head(pattern)) = lower_char(Head(text)))
         /\ like(Tail(text), Tail(pattern))

\* if query: filter(Todo.judul.ilike(f"%{query}%"))
matches_query(row, query) ==
    query # <<>> => like(row.judul, <<"%">> \o query \o <<"%">>)

\* if priority and priority.capitalize() in PRIORITIES:
\*     filter_by(prioritas=priority.capitalize())
matches_priority(row, priority) ==
    (priority # <<>> /\ capitalize(priority) \in PRIORITIES)
    => row.prioritas = capitalize(priority)

\* mutant of matches_status: "selesai" and "belum" are not recognised
matches_status_english_only(row, status) ==
    IF lower(status) = lower(S_COMPLETED) THEN row.status = TRUE
    ELSE IF lower(status) = S_pending THEN row.status = FALSE
    ELSE TRUE

\* if status.lower() in ["completed", "selesai"]: filter_by(status=True)
\* elif status.lower() in ["pending", "belum"]: filter_by(status=False)
matches_status(row, status) ==
    IF lower(status) \in {lower(S_COMPLETED), lower(S_Selesai)} THEN row.status = TRUE
    ELSE IF lower(status) \in {S_pending, lower(S_BELUM)} THEN row.status = FALSE
    ELSE TRUE

\* the text a Date column holds
stored_date(d) == isoformat(d)

\* if deadline: filter_by(deadline=deadline); the column is compared with
\* the text of the parameter, and a NULL never compares equal
matches_deadline(row, deadline) ==
    deadline # <<>> => (row.deadline # NULL /\ stored_date(row.deadline) = deadline)

\* mutant of matches_deadline_from: the bound is exclusive
matches_deadline_from_exclusive(row, deadline_from) ==
    deadline_from # <<>>
    => (/\ row.deadline # NULL
        /\ text_le(deadline_from, stored_date(row.deadline))
        /\ deadline_from # stored_date(row.deadline))

\* if deadline_from: filter(Todo.deadline >= deadline_from)
matches_deadline_from(row, deadline_from) ==
    deadline_from # <<>>
    => (row.deadline # NULL /\ text_le(deadline_from, stored_date(row.deadline)))

\* mutant of matches_deadline_to: the filter lets rows without deadline pass
matches_deadline_to_or_null(row, deadline_to) ==
    deadline_to # <<>>
    => (row.deadline = NULL \/ text_le(stored_date(row.deadline), deadline_to))

\* if deadline_to: filter(Todo.deadline <= deadline_to)
matches_deadline_to(row, deadline_to) ==
    deadline_to # <<>>
    => (row.deadline # NULL /\ text_le(stored_date(row.deadline), deadline_to))

\* the filters search_todos chains on base_query
search_filters(row, f) ==
    /\ matches_query(row, f.query)
    /\ matches_priority(row, f.priority)
    /\ matches_status(row, f.status)
    /\ matches_deadline(row, f.deadline)
    /\ matches_deadline_from(row, f.deadline_from)
    /\ matches_deadline_to(row, f.deadline_to)

\* the ids of rows, in their order, whose row passes the filters
RECURSIVE filter_rows(_, _, _)
filter_rows(store, rows, f) ==
    IF rows = <<>> THEN <<>>
    ELSE IF search_filters(store[Head(rows)], f)
    THEN <<Head(rows)>> \o filter_rows(store, Tail(rows), f)
    ELSE filter_rows(store, Tail(rows), f)

\* search_todos; rows is the order the database returns the table in
search_todos(store, rows, f, page, per_page) ==
    page_result(store, paginate(filter_rows(store, rows, f), page, per_page))

-----------------------------------------------------------------------------
(* routes.py: the handlers, with their decorators and except clauses *)

\* except Exception: db.session.rollback(), 500 database_error
database_error == Resp(500, "database_error", {}, NoBody)

\* create_todo (POST /) up to the commit
create_todo_begin(store, data) ==
    IF require_json_data(data).status # 0 THEN Answer(require_json_data(data))
    ELSE IF data = <<>> THEN Answer(Resp(400, "no_input", {}, NoBody))
    ELSE LET r == create_todo_load(store, data) IN
         IF r.exc = "ValueError" THEN Answer(Resp(400, r.msg, {}, NoBody))
         ELSE IF r.exc = "ValidationError" THEN Answer(Resp(400, r.msg, r.errors, NoBody))
         ELSE Pending(r.value)

\* create_todo (POST /) from the commit
create_todo_end(store, now, work) ==
    LET c == create_todo_commit(store, now, work) IN
    IF c.r.exc # "" THEN [store |-> store, resp |-> database_error]
    ELSE [store |-> c.store, resp |-> Resp(201, "created", {}, c.r.value)]

\* get_todo (GET /<id>)
get_todo(store, todo_id) ==
    LET r == get_todo_by_id(store, todo_id) IN
    IF r.exc # "" THEN Resp(404, "todo_not_found", {}, NoBody)
    ELSE Resp(200, "ok", {}, r.value)

\* update_todo (PUT, PATCH /<id>) up to the commit
update_todo_begin(store, todo_id, data) ==
    IF require_json_data(data).status # 0 THEN Answer(require_json_data(data))
    ELSE IF data = <<>> THEN Answer(Resp(400, "no_data_for_update", {}, NoBody))
    ELSE LET r == update_todo_load(store, todo_id, data) IN
         IF r.exc = "ValueError"
         THEN Answer(Resp(IF r.msg = "todo_not_found" THEN 404 ELSE 400, r.msg, {}, NoBody))
         ELSE IF r.exc = "ValidationError" THEN Answer(Resp(400, r.msg, r.errors, NoBody))
         ELSE Pending(r.value)

\* mutant of update_todo_end: no rollback after the failed commit, the
\* columns other than the title stay written
update_todo_end_no_rollback(store, now, work) ==
    LET c == update_todo_commit(store, now, work) IN
    IF c.r.exc = "IntegrityError"
    THEN [store |-> put_row(store, work.id,
                       [updated_row(store[work.id], work, now)
                           EXCEPT !.judul = store[work.id].judul]),
          resp |-> database_error]
    ELSE IF c.r.exc # "" THEN [store |-> store, resp |-> database_error]
    ELSE [store |-> c.store, resp |-> Resp(200, "updated", {}, c.r.value)]

\* update_todo (PUT, PATCH /<id>) from the commit
update_todo_end(store, now, work) ==
    LET c == update_todo_commit(store, now, work) IN
    IF c.r.exc # "" THEN [store |-> store, resp |-> database_error]
    ELSE [store |-> c.store, resp |-> Resp(200, "updated", {}, c.r.value)]

\* delete_todo (DELETE /<id>) up to the commit
delete_todo_begin(store, todo_id) ==
    LET r == delete_todo_load(store, todo_id) IN
    IF r.exc = "ValueError"
    THEN Answer(Resp(IF r.msg = "todo_not_found" THEN 404 ELSE 400, r.msg, {}, NoBody))
    ELSE Pending(r.value)

\* delete_todo (DELETE /<id>) from the commit
delete_todo_end(store, work) ==
    LET c == delete_todo_commit(store, work) IN
    [store |-> c.store, resp |-> Resp(204, "deleted", {}, NoBody)]

\* the body build_pagination_response makes
build_pagination_response(result) ==
    [count |-> Len(result.todos), data |-> result.todos, pagination |-> result.pagination]

\* list_todos (GET /)
list_todos(store, rows, args) ==
    LET v == validate_pagination_params(args.page, args.per_page) IN
    IF v.exc = "ValueError" THEN Resp(400, v.msg, {}, NoBody)
    ELSE Resp(200, "ok", {},
              build_pagination_response(
                  get_all_todos(store, rows, v.value.page, v.value.per_page)))

\* the arguments search_todo hands to search_todos
search_args(args) ==
    [query |-> lower(args.q),
     priority |-> capitalize(args.prioritas),
     status |-> lower(args.status),
     deadline |-> args.deadline,
     deadline_from |-> args.deadline_from,
     deadline_to |-> args.deadline_to]

\* search_todo (GET /search)
search_todo(store, rows, args) ==
    LET v == validate_pagination_params(args.page, args.per_page) IN
    IF v.exc = "ValueError" THEN Resp(400, v.msg, {}, NoBody)
    ELSE Resp(200, "ok", {},
              build_pagination_response(
                  search_todos(store, rows, search_args(args),
                               v.value.page, v.value.per_page)))

-----------------------------------------------------------------------------
(* The state machine *)

Thread(pc, op, id, data, work, pre, resp) ==
    [pc |-> pc, op |-> op, id |-> id, data |-> data,
     g |-> IF op \in {"create", "update"} /\ data # <<>> THEN sanitize_input(data) ELSE <<>>,
     work |-> work, pre |-> pre, resp |-> resp]

Idle == Thread("idle", "-", 0, <<>>, <<>>, <<>>, NoResp)

Init ==
    /\ todos = <<>>
    /\ clock = 0
    /\ threads = [t \in Workers |-> Idle]

\* time passes
Tick ==
    /\ \A t \in Workers : threads[t].pc = "idle"
    /\ clock < MaxClock
    /\ clock' = clock + 1
    /\ UNCHANGED <<todos, threads>>

\* the table hands out ids up to MaxId only
CanInsert(store, work) ==
    violates_unique(store, 0, work.values["judul"]) \/ next_id(store) <= MaxId

\* thread t has answered; its request context is torn down
Respond(t) ==
    /\ threads[t].pc = "done"
    /\ threads' = [threads EXCEPT ![t] = Idle]
    /\ UNCHANGED <<todos, clock>>

(* Requests served one at a time: each handler runs from start to end *)

CreateTodo(t, P) ==
    /\ threads[t].pc = "idle"
    /\ \E data \in P :
        LET b == create_todo_begin(todos, data) IN
        IF b.resp.status # 0
        THEN /\ threads' = [threads EXCEPT ![t] =
                    Thread("done", "create", 0, data, <<>>, todos, b.resp)]
             /\ UNCHANGED todos
        ELSE /\ CanInsert(todos, b.work)
             /\ LET e == create_todo_end(todos, clock, b.work) IN
                /\ todos' = e.store
                /\ threads' = [threads EXCEPT ![t] =
                       Thread("done", "create", 0, data, <<>>, todos, e.resp)]
    /\ UNCHANGED clock

GetTodo(t) ==
    /\ threads[t].pc = "idle"
    /\ \E id \in ProbeIds :
        threads' = [threads EXCEPT ![t] =
            Thread("done", "get", id, <<>>, <<>>, todos, get_todo(todos, id))]
    /\ UNCHANGED <<todos, clock>>

UpdateTodo(t, P) ==
    /\ threads[t].pc = "idle"
    /\ \E id \in ProbeIds, data \in P :
        LET b == update_todo_begin(todos, id, data) IN
        IF b.resp.status # 0
        THEN /\ threads' = [threads EXCEPT ![t] =
                    Thread("done", "update", id, data, <<>>, todos, b.resp)]
             /\ UNCHANGED todos
        ELSE LET e == update_todo_end(todos, clock, b.work) IN
             /\ todos' = e.store
             /\ threads' = [threads EXCEPT ![t] =
                    Thread("done", "update", id, data, <<>>, todos, e.resp)]
    /\ UNCHANGED clock

DeleteTodo(t) ==
    /\ threads[t].pc = "idle"
    /\ \E id \in ProbeIds :
        LET b == delete_todo_begin(todos, id) IN
        IF b.resp.status # 0
        THEN /\ threads' = [threads EXCEPT ![t] =
                    Thread("done", "delete", id, <<>>, <<>>, todos, b.resp)]
             /\ UNCHANGED todos
        ELSE LET e == delete_todo_end(todos, b.work) IN
             /\ todos' = e.store
             /\ threads' = [threads EXCEPT ![t] =
                    Thread("done", "delete", id, <<>>, <<>>, todos, e.resp)]
    /\ UNCHANGED clock

ListTodos(t, A) ==
    /\ threads[t].pc = "idle"
    /\ \E args \in A, rows \in order_by_created_at_desc(todos) :
        threads' = [threads EXCEPT ![t] =
            Thread("done", "list", 0, args, <<>>, todos, list_todos(todos, rows, args))]
    /\ UNCHANGED <<todos, clock>>

SearchTodos(t, A) ==
    /\ threads[t].pc = "idle"
    /\ \E args \in A, rows \in order_by_created_at_desc(todos) :
        threads' = [threads EXCEPT ![t] =
            Thread("done", "search", 0, args, <<>>, todos, search_todo(todos, rows, args))]
    /\ UNCHANGED <<todos, clock>>

\* requests one at a time, over the full payloads, at one instant
Next ==
    \/ CreateTodo(Main, Payloads)
    \/ GetTodo(Main)
    \/ UpdateTodo(Main, Payloads)
    \/ DeleteTodo(Main)
    \/ Respond(Main)

Spec == Init /\ [][Next]_vars

\* requests one at a time, with time passing between them
NextTime ==
    \/ Tick
    \/ CreateTodo(Main, TimePayloads)
    \/ GetTodo(Main)
    \/ UpdateTodo(Main, TimePayloads)
    \/ DeleteTodo(Main)
    \/ ListTodos(Main, TimeListArgs)
    \/ Respond(Main)

SpecTime == Init /\ [][NextTime]_vars

\* requests one at a time, with List and Search among them, at one instant
NextQuery ==
    \/ CreateTodo(Main, QueryPayloads)
    \/ UpdateTodo(Main, QueryPayloads)
    \/ DeleteTodo(Main)
    \/ ListTodos(Main, ListArgs)
    \/ SearchTodos(Main, SearchArgs)
    \/ Respond(Main)

SpecQuery == Init /\ [][NextQuery]_vars

\* Create and Update requests one at a time, over payloads that break the
\* rules of the schema
NextValidate ==
    \/ CreateTodo(Main, ValidatePayloads)
    \/ UpdateTodo(Main, ValidatePayloads)
    \/ DeleteTodo(Main)
    \/ Respond(Main)

SpecValidate == Init /\ [][NextValidate]_vars

(* Requests served concurrently: a handler that writes takes two steps, the *)
(* queries and the load first, the commit later                              *)

BeginCreate(t) ==
    /\ threads[t].pc = "idle"
    /\ \E data \in ConcPayloads :
        LET b == create_todo_begin(todos, data) IN
        threads' = [threads EXCEPT ![t] =
            IF b.resp.status # 0
            THEN Thread("done", "create", 0, data, <<>>, <<>>, b.resp)
            ELSE Thread("commit", "create", 0, data, b.work, <<>>, NoResp)]
    /\ UNCHANGED <<todos, clock>>

CommitCreate(t) ==
    /\ threads[t].pc = "commit" /\ threads[t].op = "create"
    /\ CanInsert(todos, threads[t].work)
    /\ LET e == create_todo_end(todos, clock, threads[t].work) IN
        /\ todos' = e.store
        /\ threads' = [threads EXCEPT ![t] =
               Thread("done", "create", 0, threads[t].data, threads[t].work, <<>>, e.resp)]
    /\ UNCHANGED clock

BeginUpdate(t) ==
    /\ threads[t].pc = "idle"
    /\ \E id \in Ids, data \in ConcPayloads :
        LET b == update_todo_begin(todos, id, data) IN
        threads' = [threads EXCEPT ![t] =
            IF b.resp.status # 0
            THEN Thread("done", "update", id, data, <<>>, <<>>, b.resp)
            ELSE Thread("commit", "update", id, data, b.work, <<>>, NoResp)]
    /\ UNCHANGED <<todos, clock>>

CommitUpdate(t) ==
    /\ threads[t].pc = "commit" /\ threads[t].op = "update"
    /\ LET e == update_todo_end(todos, clock, threads[t].work) IN
        /\ todos' = e.store
        /\ threads' = [threads EXCEPT ![t] =
               Thread("done", "update", threads[t].id, threads[t].data, threads[t].work,
                      <<>>, e.resp)]
    /\ UNCHANGED clock

BeginDelete(t) ==
    /\ threads[t].pc = "idle"
    /\ \E id \in Ids :
        LET b == delete_todo_begin(todos, id) IN
        threads' = [threads EXCEPT ![t] =
            IF b.resp.status # 0
            THEN Thread("done", "delete", id, <<>>, <<>>, <<>>, b.resp)
            ELSE Thread("commit", "delete", id, <<>>, b.work, <<>>, NoResp)]
    /\ UNCHANGED <<todos, clock>>

CommitDelete(t) ==
    /\ threads[t].pc = "commit" /\ threads[t].op = "delete"
    /\ LET e == delete_todo_end(todos, threads[t].work) IN
        /\ todos' = e.store
        /\ threads' = [threads EXCEPT ![t] =
               Thread("done", "delete", threads[t].id, <<>>, threads[t].work, <<>>, e.resp)]
    /\ UNCHANGED clock

NextConc ==
    \E t \in Workers :
        \/ BeginCreate(t)
        \/ CommitCreate(t)
        \/ BeginUpdate(t)
        \/ CommitUpdate(t)
        \/ BeginDelete(t)
        \/ CommitDelete(t)
        \/ Respond(t)

SpecConc == Init /\ [][NextConc]_vars

-----------------------------------------------------------------------------
(* Properties *)

main == threads[Main]

Done(t, op) == threads[t].pc = "done" /\ threads[t].op = op

\* the columns a payload can set
DataColumns == {"judul", "status", "prioritas", "deadline"}

\* a todo of the store has this title
HasTitle(store, judul) == \E i \in DOMAIN store : store[i].judul = judul

\* a title that is empty or only whitespace
IsBlank(judul) == \A i \in 1..Len(judul) : judul[i] = Space

\* C1: in every reachable state, under any interleaving of Create, Update and
\* Delete requests, no two stored todos have the same title.
C1_UniqueTitles ==
    \A i, j \in DOMAIN todos : i # j => todos[i].judul # todos[j].judul

\* C1 witness: an Update that would have given a second todo the title of
\* another stored todo was refused at the commit.
C1_Witness ==
    \E t \in Workers :
        /\ Done(t, "update")
        /\ threads[t].resp.status = 500
        /\ "judul" \in DOMAIN threads[t].data
        /\ \E i \in DOMAIN todos :
              i # threads[t].id /\ todos[i].judul = threads[t].data["judul"]
        /\ threads[t].id \in DOMAIN todos

\* C2: a Create with a non-empty payload whose title equals the title of a
\* stored todo fails with duplicate_title, whatever its other fields are, and
\* adds no todo.
C2_DuplicateTitleRejected ==
    (/\ Done(Main, "create")
     /\ "judul" \in DOMAIN main.data
     /\ HasTitle(main.pre, main.data["judul"]))
    => (/\ main.resp.status = 400
        /\ main.resp.kind = "duplicate_title"
        /\ todos = main.pre)

\* C2 witness: a duplicate title together with an invalid priority and an
\* invalid deadline was answered with duplicate_title.
C2_Witness ==
    /\ Done(Main, "create")
    /\ DOMAIN main.data = DataColumns
    /\ HasTitle(main.pre, main.data["judul"])
    /\ main.data["prioritas"] = S_x
    /\ main.data["deadline"] = S_feb30
    /\ main.resp.kind = "duplicate_title"

\* C3 (as claimed): a Create that passed the duplicate pre-check and then
\* fails at the commit, because another request inserted the title first,
\* is answered with duplicate_title.
C3_RaceLoserGetsDuplicateTitle ==
    \A t \in Workers :
        (/\ Done(t, "create")
         /\ threads[t].work # <<>>
         /\ threads[t].resp.status # 201)
        => threads[t].resp.kind = "duplicate_title"

\* C4 (as claimed): the stored priority of every todo is one of High, Medium, Low.
C4_StoredPriorityInEnum ==
    \A i \in DOMAIN todos : todos[i].prioritas \in PRIORITIES

\* C5 (as claimed): the stored title of every todo is non-empty and has no
\* leading or trailing whitespace.
C5_StoredTitleTrimmed ==
    \A i \in DOMAIN todos :
        /\ todos[i].judul # <<>>
        /\ Head(todos[i].judul) # Space
        /\ todos[i].judul[Len(todos[i].judul)] # Space

\* C6 (as claimed): a Create whose title is absent, empty or whitespace-only
\* fails with a validation failure on the title and leaves the store unchanged.
C6_BlankTitleFailsValidation ==
    (/\ Done(Main, "create")
     /\ ("judul" \in DOMAIN main.data => IsBlank(main.data["judul"])))
    => (/\ main.resp.kind = "validation_error"
        /\ "judul" \in main.resp.errors
        /\ todos = main.pre)

\* C6 (amended): a Create with a non-empty payload whose title is absent,
\* empty or whitespace-only fails with a validation failure on the title,
\* whatever its other fields are, and leaves the store unchanged.
C6_BlankTitleFailsValidationNonEmpty ==
    (/\ Done(Main, "create")
     /\ main.data # <<>>
     /\ ("judul" \in DOMAIN main.data => IsBlank(main.data["judul"])))
    => (/\ main.resp.status = 400
        /\ main.resp.kind = "validation_error"
        /\ "judul" \in main.resp.errors
        /\ todos = main.pre)

\* C6 witness: a whitespace-only title next to valid other fields was refused
\* on the title alone, with todos in the store.
C6_Witness ==
    /\ Done(Main, "create")
    /\ DOMAIN main.data = DataColumns
    /\ main.data["judul"] = <<Space>>
    /\ main.data["prioritas"] = S_hIGH
    /\ main.data["deadline"] = S_jan15
    /\ main.resp.errors = {"judul"}
    /\ main.pre # <<>>

\* the value a Create payload asks for in a column, as a response shows it
Asked(data, c) ==
    IF c \in DOMAIN data THEN data[c]
    ELSE CASE c = "status" -> FALSE
           [] c = "prioritas" -> <<"M", "e", "d", "i", "u", "m">>
           [] c = "deadline" -> None

C8_EmptyUpdateNoData ==
    (Done(Main, "update") /\ main.data = <<>>)
    => (main.resp.kind = "no_data_for_update" /\ todos = main.pre)

\* C9 (as claimed): an Update on an id that no stored todo has fails with
\* todo_not_found, for every payload: valid, invalid or empty.
C9_MissingIdNotFound ==
    (Done(Main, "update") /\ main.id \notin DOMAIN main.pre)
    => (main.resp.status = 404 /\ main.resp.kind = "todo_not_found")

\* C9 (amended): an Update on an id that no stored todo has fails with
\* todo_not_found for every non-empty payload, valid or invalid.
C9_MissingIdNotFoundNonEmpty ==
    (Done(Main, "update") /\ main.id \notin DOMAIN main.pre /\ main.data # <<>>)
    => (main.resp.status = 404 /\ main.resp.kind = "todo_not_found")

\* C9 witness: an Update with an invalid payload on a missing id was answered
\* with todo_not_found, while the store held todos.
C9_Witness ==
    /\ Done(Main, "update")
    /\ main.id \notin DOMAIN main.pre
    /\ main.pre # <<>>
    /\ schema_errors(main.data, TRUE) # {}
    /\ main.resp.status = 404

\* C10: a successful partial Update changes only the supplied fields of the
\* todo with that id: each supplied field takes the loaded value, the
\* unsupplied fields, the id and created_at keep their values, every other
\* todo is unchanged; and an Update without title never fails for a missing
\* title.
C10_PartialUpdateFrame ==
    /\ (Done(Main, "update") /\ main.resp.status = 200)
       => (/\ main.id \in DOMAIN main.pre
           /\ DOMAIN todos = DOMAIN main.pre
           /\ \A i \in DOMAIN todos : i # main.id => todos[i] = main.pre[i]
           /\ \A c \in DataColumns \ DOMAIN main.data :
                 todos[main.id][c] = main.pre[main.id][c]
           /\ \A c \in DOMAIN main.data :
                 todos[main.id][c] = schema_load(main.data)[c]
           /\ todos[main.id].created_at = main.pre[main.id].created_at
           /\ main.resp.body.id = main.id)
    /\ (Done(Main, "update") /\ "judul" \notin DOMAIN main.data)
       => "judul" \notin main.resp.errors

\* C10 witness: an Update that supplied only the status succeeded, at a later
\* time than the creation, on a todo with a non-default priority, with
\* another todo in the store.
C10_Witness ==
    /\ Done(Main, "update")
    /\ main.resp.status = 200
    /\ DOMAIN main.data = {"status"}
    /\ Cardinality(DOMAIN todos) = 2
    /\ main.pre[main.id].status = FALSE
    /\ main.pre[main.id].prioritas = S_hIGH
    /\ main.pre[main.id].created_at < clock

\* the Update payload asks for a value other than the stored one in some column
Changes(data, row) == \E c \in DOMAIN data : schema_load(data)[c] # row[c]

\* updated_at is set only by Update, and only on the todo the Update names
UpdatedAtFrame ==
    /\ (Done(Main, "create") /\ main.resp.status = 201)
       => todos[main.resp.body.id].updated_at = NULL
    /\ main.pc = "done"
       => \A i \in DOMAIN todos \cap DOMAIN main.pre :
             (main.op # "update" \/ i # main.id)
             => todos[i].updated_at = main.pre[i].updated_at

\* created_at <= updated_at wherever updated_at is set
CreatedBeforeUpdated ==
    \A i \in DOMAIN todos :
        todos[i].updated_at # NULL => todos[i].created_at <= todos[i].updated_at[1]

C12_DeleteRemovesExactlyOne ==
    Done(Main, "delete")
    => IF main.id \in DOMAIN main.pre
       THEN /\ main.resp.status = 204
            /\ DOMAIN todos = DOMAIN main.pre \ {main.id}
            /\ \A i \in DOMAIN todos : todos[i] = main.pre[i]
            /\ get_todo(todos, main.id).status = 404
            /\ get_todo(todos, main.id).kind = "todo_not_found"
       ELSE /\ main.resp.status = 404
            /\ main.resp.kind = "todo_not_found"
            /\ todos = main.pre

\* C12 witness: the first of two stored todos was deleted and the second stayed.
C12_Witness ==
    /\ Done(Main, "delete")
    /\ main.resp.status = 204
    /\ Cardinality(DOMAIN main.pre) = 2
    /\ main.id = 1
    /\ 2 \in DOMAIN todos

\* thread Main has answered a List or a Search request
QueryDone == main.pc = "done" /\ main.op \in {"list", "search"}

\* a query parameter that is present and not empty
Supplied(v) == v # None /\ v # <<>>

\* C13: validate_pagination_params is total over raw (page, per_page): it
\* fails with invalid_page exactly when a supplied non-empty parameter is not
\* an integer; otherwise page' is 1 if page is absent or < 1, else page, and
\* per_page' is 10 if per_page is absent or < 1, 100 if per_page > 100, else
\* per_page, so page' >= 1 and 1 <= per_page' <= 100; the request is
\* answered accordingly.
C13_PaginationParams ==
    QueryDone =>
        LET page == main.data.page
            per_page == main.data.per_page
            r == validate_pagination_params(page, per_page)
        IN IF \/ Supplied(page) /\ ~is_int_text(page)
              \/ Supplied(per_page) /\ ~is_int_text(per_page)
           THEN /\ r.exc = "ValueError"
                /\ main.resp.status = 400
                /\ main.resp.kind = "invalid_page"
           ELSE /\ r.exc = ""
                /\ r.value.page = IF ~Supplied(page) \/ int(page) < 1 THEN 1 ELSE int(page)
                /\ r.value.per_page =
                       IF ~Supplied(per_page) \/ int(per_page) < 1 THEN 10
                       ELSE IF int(per_page) > 100 THEN 100
                       ELSE int(per_page)
                /\ r.value.page >= 1
                /\ r.value.per_page \in 1..100
                /\ main.resp.status = 200
                /\ main.resp.body.pagination.page = r.value.page
                /\ main.resp.body.pagination.per_page = r.value.per_page

\* C13 witness: a List with per_page above the maximum was answered with
\* per_page 100, on the page asked for.
C13_Witness ==
    /\ Done(Main, "list")
    /\ main.data.per_page = <<"1", "0", "1">>
    /\ main.data.page = <<"2">>
    /\ main.resp.status = 200
    /\ main.resp.body.pagination.per_page = 100
    /\ main.resp.body.pagination.page = 2
    /\ todos # <<>>

\* the ids of the todos that pass the filters of a Search request
Matching(store, args) ==
    { i \in DOMAIN store : search_filters(store[i], search_args(args)) }

\* C14: in every List or Search result, total is the number of todos that
\* match the filters, pages is total / per_page rounded up (0 when total is
\* 0), has_next is page < pages and has_prev is page > 1.
C14_PageDescriptor ==
    (QueryDone /\ main.resp.status = 200) =>
        LET pg == main.resp.body.pagination IN
        /\ pg.total = IF main.op = "list" THEN Cardinality(DOMAIN todos)
                      ELSE Cardinality(Matching(todos, main.data))
        /\ IF pg.total = 0 THEN pg.pages = 0
           ELSE /\ (pg.pages - 1) * pg.per_page < pg.total
                /\ pg.total <= pg.pages * pg.per_page
        /\ pg.has_next = (pg.page < pg.pages)
        /\ pg.has_prev = (pg.page > 1)

\* C14 witness: the first of two pages of a Search that matched two todos.
C14_Witness ==
    /\ Done(Main, "search")
    /\ main.data.page = <<"2">>
    /\ main.data.status = S_Selesai
    /\ main.resp.body.pagination.total = 2
    /\ main.resp.body.pagination.pages = 2
    /\ main.resp.body.pagination.has_prev
    /\ ~main.resp.body.pagination.has_next

\* C15 (as claimed): the todos of a List or Search result are in descending
\* order of created_at, and todos with the same created_at in ascending
\* order of id.
C15_OrderedByCreatedAtThenId ==
    (QueryDone /\ main.resp.status = 200) =>
        LET d == main.resp.body.data IN
        \A i \in 1..(Len(d) - 1) :
            \/ d[i].created_at > d[i + 1].created_at
            \/ d[i].created_at = d[i + 1].created_at /\ d[i].id < d[i + 1].id

\* the names of the filters of a Search request
Filters == {"q", "prioritas", "status", "deadline", "deadline_from", "deadline_to"}

SuppliedFilters(args) == { k \in Filters : args[k] # <<>> }

\* the request with every filter but k left out, on the default page
OnlyFilter(args, k) ==
    [x \in DOMAIN args |->
        IF x \in {"page", "per_page"} THEN None
        ELSE IF x = k THEN args[x] ELSE <<>>]

\* the ids of the todos in the body of a List or Search response
ResultIds(resp) == { resp.body.data[i].id : i \in 1..Len(resp.body.data) }

\* a Search on the default page, where every match is on the page
OnDefaultPage(t, op) ==
    /\ Done(t, op)
    /\ threads[t].resp.status = 200
    /\ threads[t].data.page = None
    /\ threads[t].data.per_page = None

\* the todos a Search returns are those that a Search with each supplied
\* filter alone returns, and all todos when no filter is supplied
FiltersIntersect ==
    (Done(Main, "search") /\ main.resp.status = 200) =>
        LET rows == CHOOSE r \in order_by_created_at_desc(todos) : TRUE
            alone(k) == ResultIds(search_todo(todos, rows, OnlyFilter(main.data, k)))
            all == { i \in DOMAIN todos :
                        \A k \in SuppliedFilters(main.data) : i \in alone(k) }
        IN /\ main.resp.body.pagination.total = Cardinality(all)
           /\ ResultIds(main.resp) \subseteq all
           /\ OnDefaultPage(Main, "search") => ResultIds(main.resp) = all

\* C16 (as claimed): the todos a Search matches are the intersection of the
\* sets each supplied filter matches alone; with no filter supplied they are
\* the whole store, and the Search returns the page and the descriptor that
\* List returns for the same page and per_page.
C16_FiltersIntersectAndListWhenNone ==
    /\ FiltersIntersect
    /\ (Done(Main, "search") /\ SuppliedFilters(main.data) = {})
       => \A rows \in order_by_created_at_desc(todos) :
             main.resp = list_todos(todos, rows, [page |-> main.data.page,
                                                  per_page |-> main.data.per_page])

\* C17 (as claimed): a Search by a priority that capitalizes to High, Medium
\* or Low returns the todos that were accepted with that priority in any
\* letter case, and no other; a priority outside the enumeration is no
\* constraint and no error.
C17_PriorityFilterExact ==
    (OnDefaultPage(Main, "search") /\ SuppliedFilters(main.data) \subseteq {"prioritas"}) =>
        IF capitalize(main.data.prioritas) \in PRIORITIES
        THEN ResultIds(main.resp) =
                { i \in DOMAIN todos :
                    capitalize(todos[i].prioritas) = capitalize(main.data.prioritas) }
        ELSE ResultIds(main.resp) = DOMAIN todos

\* C18: a Search by status "completed" or "selesai", in any letter case,
\* returns the todos with status true, by "pending" or "belum" those with
\* status false, and by any other status, the empty one too, all todos.
C18_StatusSynonyms ==
    (OnDefaultPage(Main, "search") /\ SuppliedFilters(main.data) \subseteq {"status"}) =>
        ResultIds(main.resp) =
            { i \in DOMAIN todos :
                IF main.data.status \in {S_COMPLETED, S_Selesai} THEN todos[i].status
                ELSE IF main.data.status \in {S_pending, S_BELUM} THEN ~todos[i].status
                ELSE TRUE }

\* C18 witness: a Search by "Selesai" returned the one todo of two that is done.
C18_Witness ==
    /\ OnDefaultPage(Main, "search")
    /\ SuppliedFilters(main.data) = {"status"}
    /\ main.data.status = S_Selesai
    /\ Cardinality(DOMAIN todos) = 2
    /\ Cardinality(ResultIds(main.resp)) = 1
    /\ \A i \in ResultIds(main.resp) : todos[i].status

\* a <= b for two calendar dates <<year, month, day>>
date_le(a, b) ==
    \/ a[1] < b[1]
    \/ a[1] = b[1] /\ a[2] < b[2]
    \/ a[1] = b[1] /\ a[2] = b[2] /\ a[3] <= b[3]

DeadlineFilterNames == {"deadline", "deadline_from", "deadline_to"}

\* C19: a Search by deadline_from = a and/or deadline_to = b returns the
\* todos whose deadline d has a <= d and d <= b, both bounds included, and
\* none when a > b; a Search by deadline returns the todos whose deadline is
\* that date.
C19_DeadlineRange ==
    (/\ OnDefaultPage(Main, "search")
     /\ SuppliedFilters(main.data) \subseteq DeadlineFilterNames
     /\ SuppliedFilters(main.data) # {}
     /\ \A k \in SuppliedFilters(main.data) : is_valid_date(main.data[k]))
    => LET a == main.data.deadline_from
           b == main.data.deadline_to
           e == main.data.deadline
       IN /\ ResultIds(main.resp) =
                { i \in DOMAIN todos :
                    /\ todos[i].deadline # NULL
                    /\ a # <<>> => date_le(date_fields(a), todos[i].deadline)
                    /\ b # <<>> => date_le(todos[i].deadline, date_fields(b))
                    /\ e # <<>> => todos[i].deadline = date_fields(e) }
          /\ (a # <<>> /\ b # <<>> /\ ~date_le(date_fields(a), date_fields(b)))
             => ResultIds(main.resp) = {}

\* C19 witness: a Search from 2025-01-15 to 2025-01-15 returned the one todo
\* of two that has this deadline.
C19_Witness ==
    /\ OnDefaultPage(Main, "search")
    /\ SuppliedFilters(main.data) = {"deadline_from", "deadline_to"}
    /\ main.data.deadline_from = S_jan15
    /\ main.data.deadline_to = S_jan15
    /\ Cardinality(DOMAIN todos) = 2
    /\ Cardinality(ResultIds(main.resp)) = 1

\* the fields of a Create or Update payload that break a rule: the title
\* empty, or absent on Create; the priority outside the enumeration; the
\* deadline not a date
Violations(op, data) ==
    { k \in {"judul", "prioritas", "deadline"} :
        CASE k = "judul" ->
                IF k \in DOMAIN data THEN IsBlank(data[k]) ELSE op = "create"
          [] k = "prioritas" ->
                k \in DOMAIN data /\ capitalize(data[k]) \notin PRIORITIES
          [] k = "deadline" ->
                k \in DOMAIN data /\ data[k] # None /\ ~is_valid_date(data[k]) }

\* C20 (as claimed): when the validation of a Create or Update payload
\* fails, the fields of the error mapping are the fields of the payload that
\* break a rule, all of them.
C20_EveryInvalidFieldNamed ==
    (/\ main.pc = "done"
     /\ main.op \in {"create", "update"}
     /\ main.resp.kind = "validation_error")
    => main.resp.errors = Violations(main.op, main.data)

\* the response and the store a Create or Update handler ends with
Outcome(op, store, id, data, now) ==
    LET b == IF op = "create" THEN create_todo_begin(store, data)
             ELSE update_todo_begin(store, id, data)
    IN IF b.resp.status # 0 THEN [store |-> store, resp |-> b.resp]
       ELSE IF op = "create" THEN create_todo_end(store, now, b.work)
       ELSE update_todo_end(store, now, b.work)

WriteDone == main.pc = "done" /\ main.op \in {"create", "update"}

\* C21 (as claimed): a Create or Update payload with a field name that is no
\* Todo field is not rejected for it: the answer and the store are those of
\* the payload without that field.
C21_UnknownFieldIgnored ==
    (WriteDone /\ UnknownField \in DOMAIN main.data)
    => (/\ UnknownField \notin main.resp.errors
        /\ [store |-> todos, resp |-> main.resp]
              = Outcome(main.op, main.pre, main.id, WithoutUnknown(main.data), clock))

\* C22 (as claimed): no Create, Update, Delete or Get is answered with the
\* generic database error; every failure is one of no_input,
\* validation_error, duplicate_title, todo_not_found, no_data_for_update and
\* invalid_page, also for an Update whose new title is that of another todo.
C22_NoGenericError ==
    main.pc = "done"
    => (/\ main.resp.status # 500
        /\ main.resp.status >= 400
           => main.resp.kind \in {"no_input", "validation_error", "duplicate_title",
                                  "todo_not_found", "no_data_for_update", "invalid_page"})

\* thread t commits an Update or a Delete and reports success
CommitsWithSuccess(t) ==
    /\ threads[t].pc = "commit"
    /\ threads[t].op \in {"update", "delete"}
    /\ threads'[t].pc = "done"
    /\ threads'[t].resp.status \in {200, 204}

\* C23 (as claimed): under interleaved requests on one id, an Update or a
\* Delete reports success only if the todo exists when its mutation is
\* applied: of two concurrent Deletes of one todo one succeeds and the other
\* does not, and an Update racing a Delete reports no success for a todo
\* that is gone.
C23_SuccessOnlyIfExists ==
    [][\A t \in Workers : CommitsWithSuccess(t) => threads[t].id \in DOMAIN todos]_vars

\* thread Main has answered a Create, an Update or a Delete
MutationDone == main.pc = "done" /\ main.op \in {"create", "update", "delete"}

\* C24: a Create, Update or Delete that is answered with an error (a domain
\* error, a validation failure or a failure at the commit) leaves the stored
\* todos and all their values as they were before the request, so nothing
\* of the failed change is there for a later request to persist.
C24_ErrorLeavesStore ==
    (MutationDone /\ main.resp.status >= 400) => todos = main.pre

\* C24 witness: an Update that set the title of another todo together with
\* a new status failed at the commit.
C24_Witness ==
    /\ Done(Main, "update")
    /\ main.resp.status = 500
    /\ DOMAIN main.data = {"judul", "status"}
    /\ main.data["status"] # main.pre[main.id].status
    /\ Cardinality(DOMAIN main.pre) = 2

\* the smaller of two numbers
Min(a, b) == IF a < b THEN a ELSE b

\* the todos on page q of the request Main has answered, for one order of
\* the rows
PageIds(rows, q) ==
    LET n == main.resp.body.pagination.per_page
        r == IF main.op = "list" THEN get_all_todos(todos, rows, q, n)
             ELSE search_todos(todos, rows, search_args(main.data), q, n)
    IN { r.todos[i].id : i \in 1..Len(r.todos) }

\* the page returned is a slice of the matching todos in one of the orders
\* the query allows: min(n, max(0, total - (p-1)*n)) items, none and no
\* has_next past the last page, never an error
PageIsSlice ==
    (QueryDone /\ main.resp.status = 200) =>
        LET pg == main.resp.body.pagination
            left == pg.total - (pg.page - 1) * pg.per_page
        IN /\ main.resp.body.count = Min(pg.per_page, IF left < 0 THEN 0 ELSE left)
           /\ Cardinality(ResultIds(main.resp)) = main.resp.body.count
           /\ pg.page > pg.pages => (main.resp.body.count = 0 /\ ~pg.has_next)
           /\ \E rows \in order_by_created_at_desc(todos) :
                 ResultIds(main.resp) = PageIds(rows, pg.page)

\* C25 (as claimed): List and Search return the items at positions
\* (p-1)*n+1 .. min(p*n, total) of the ordered matching sequence; a page past
\* the last one is empty, has no has_next and is no error; and on an
\* unchanged store the pages 1..pages together hold every matching todo
\* exactly once: no todo of the page returned is on another page.
C25_PagesPartition ==
    /\ PageIsSlice
    /\ (QueryDone /\ main.resp.status = 200) =>
          \A q \in 1..main.resp.body.pagination.pages :
              q # main.resp.body.pagination.page
              => \A rows \in order_by_created_at_desc(todos) :
                    PageIds(rows, q) \cap ResultIds(main.resp) = {}

\* C26: a todo without deadline is in no result of a Search that supplies
\* deadline, deadline_from or deadline_to, whatever their values; a Search
\* that supplies none of the three returns it when the other filters match.
C26_NoDeadlineNeverMatches ==
    /\ (Done(Main, "search") /\ main.resp.status = 200)
       => \A i \in ResultIds(main.resp) :
             todos[i].deadline = NULL
             => SuppliedFilters(main.data) \cap DeadlineFilterNames = {}
    /\ (/\ OnDefaultPage(Main, "search")
        /\ SuppliedFilters(main.data) \cap DeadlineFilterNames = {})
       => \A i \in DOMAIN todos :
             (/\ todos[i].deadline = NULL
              /\ matches_query(todos[i], search_args(main.data).query)
              /\ matches_priority(todos[i], search_args(main.data).priority)
              /\ matches_status(todos[i], search_args(main.data).status))
             => i \in ResultIds(main.resp)

\* C26 witness: a Search with a deadline_to that is no date returned the
\* todo that has a deadline and not the one that has none.
C26_Witness ==
    /\ OnDefaultPage(Main, "search")
    /\ main.data.deadline_to = S_x
    /\ Cardinality(DOMAIN todos) = 2
    /\ \E i \in DOMAIN todos : todos[i].deadline = NULL
    /\ Cardinality(ResultIds(main.resp)) = 1

\* thread Main has answered a Delete with success
Deleted == Done(Main, "delete") /\ main.resp.status = 204

\* the requests that can return every stored todo: List on the first page
\* and Search with at most one filter on the default page
FirstPageListArgs == { A \in ListArgs : A.page \in {None, <<"1">>} }
OneFilterArgs ==
    { A \in SearchArgs : Cardinality(SuppliedFilters(A)) <= 1 /\ A.page = None }

\* C27: Delete is a hard delete: after a successful Delete(id) no List and
\* no Search returns the todo (the row is gone, and every result holds stored
\* todos only), and a Create with the title of the deleted todo succeeds (no
\* duplicate_title) when no other stored todo has that title.
C27_HardDelete ==
    /\ (QueryDone /\ main.resp.status = 200)
       => \A i \in 1..Len(main.resp.body.data) :
             /\ main.resp.body.data[i].id \in DOMAIN todos
             /\ main.resp.body.data[i].judul = todos[main.resp.body.data[i].id].judul
    /\ Deleted
       => /\ main.id \notin DOMAIN todos
          /\ \A rows \in order_by_created_at_desc(todos) :
               /\ \A A \in FirstPageListArgs :
                     LET r == list_todos(todos, rows, A)
                     IN  r.status = 200 => main.id \notin ResultIds(r)
               /\ \A A \in OneFilterArgs :
                     LET r == search_todo(todos, rows, A)
                     IN  r.status = 200 => main.id \notin ResultIds(r)
          /\ \A data \in QueryPayloads :
               (/\ "judul" \in DOMAIN data
                /\ data["judul"] = main.pre[main.id].judul
                /\ ~HasTitle(todos, main.pre[main.id].judul))
               => LET o == Outcome("create", todos, 0, data, clock)
                  IN  /\ o.resp.status = 201
                      /\ \E i \in DOMAIN o.store \ DOMAIN todos :
                            o.store[i].judul = main.pre[main.id].judul

\* C27 witness: one of two stored todos was deleted, the other one is still
\* listed, and a payload with the title of the deleted todo exists.
C27_Witness ==
    /\ Deleted
    /\ Cardinality(DOMAIN main.pre) = 2
    /\ Cardinality(DOMAIN todos) = 1
    /\ \E rows \in order_by_created_at_desc(todos) :
          Cardinality(ResultIds(list_todos(todos, rows, [page |-> None, per_page |-> None]))) = 1
    /\ \E data \in QueryPayloads :
          /\ "judul" \in DOMAIN data
          /\ data["judul"] = main.pre[main.id].judul
    /\ ~HasTitle(todos, main.pre[main.id].judul)

====
